---- MODULE Spec2Model ----
(***************************************************************************)
(* Registration lifecycle of kumuluzee-go-discovery.                       *)
(*                                                                         *)
(* Every service instance is a process that calls RegisterService once;    *)
(* RegisterService starts the goroutine run(retryDelay), which registers   *)
(* the instance or refreshes its TTL, sleeps, and calls itself again.  The *)
(* registry (etcd's key tree, Consul's catalogue) is shared by the         *)
(* instances.  Registry calls are network calls: each is one step, each    *)
(* may fail, and the steps of different instances interleave.              *)
(***************************************************************************)
EXTENDS Integers, Sequences, FiniteSets, TLC

\* ------------------------------------------------------------------ bounds

\* Instances that may hold a key in the registry.
NumInst == 2
\* Values a configuration may give to start-retry-delay-ms: 1..MaxConfStart.
MaxConfStart == 1
\* Values a configuration may give to max-retry-delay-ms:
\* ConfMaxStep * (1..MaxConfMax).
MaxConfMax == 1
ConfMaxStep == 3
\* The numbers in the version strings of instances and of constraints:
\* 0..MaxPart.
MaxPart == 2

Insts == 1..NumInst

\* ------------------------------------------------------- program constants

\* getRetryDelays: the defaults of the two retry delays (ms).
DefaultStartRetryDelay == 500
DefaultMaxRetryDelay == 900000
\* loadServiceRegisterConfiguration: the default ping interval (s).
DefaultPingInterval == 20
\* loadServiceRegisterConfiguration: the default TTL (s).
DefaultTTL == 30

\* conf.GetInt of a configuration key that is not set: (0, false).
Unset == [ok |-> FALSE, v |-> 0]
\* conf.GetInt of a configuration key set to n: (n, true).
Given(n) == [ok |-> TRUE, v |-> n]
\* A registry key that does not exist.
NoKey == "<nokey>"
\* The base URLs a configuration may hold; "" is kumuluzee.server.base-url
\* not set.
BaseURLs == {"", "http://svc"}
\* Environment, name and version of an instance (registerConfiguration's
\* Env.Name, Name, Version).
Idents ==
    {[env |-> "dev", name |-> "svc", version |-> v] : v \in {"1.0.0", "2.0.0"}}
\* No DiscoverService call has been made.
NoCall == [kind |-> "none"]
\* uuid.NewV4() of each instance: distinct, and no name or environment.
Uuids == <<"uuid-1", "uuid-2", "uuid-3", "uuid-4">>

VARIABLES
    backend,          \* Options.Extension of the processes: "etcd" or "consul"
    startRetryDelay,  \* d.startRetryDelay of each process (ms)
    maxRetryDelay,    \* d.maxRetryDelay of each process (ms)
    pingInterval,     \* d.options.Discovery.PingInterval of each process (s)
    baseURL,          \* d.options.Server.BaseURL of each process
    ident,            \* environment, name and version of each instance
    singleton,        \* serviceInstance.singleton
    isRegistered,     \* serviceInstance.isRegistered
    pc,               \* where each process is: "peer" is an instance of a
                      \* process outside the model, "idle" is before
                      \* RegisterService, the rest are positions in run()
    retryDelay,       \* the argument of the current call of run()
    ok,               \* run()'s local ok of the latest finished iteration
    op,               \* the registry operation of the latest finished
                      \* iteration: "none", "register" or "refresh"
    probe,            \* what the latest isServiceRegistered() call met:
                      \* "none", "failed" (the read failed), "found", "clear"
    slept,            \* the latest time.Sleep of run(): its unit and amount
    timer,            \* what is left of that time.Sleep (ms)
    kv,               \* etcd: the instance directory of each instance
    cat,              \* Consul: the catalogue entry of each instance
    shutdown,         \* the owning process's shutdown signal: "no",
                      \* "signalled", and "due" once run() has woken up
                      \* from a sleep after the signal
    tree,             \* etcd: what environments/{env}/services/{name}/ holds
                      \* besides the instance directories: the versions
                      \* whose instances/ directory exists, and the
                      \* gatewayUrl key of each version
    call              \* the latest DiscoverService or matcher call: its
                      \* arguments and what it returned

confVars == <<backend, startRetryDelay, maxRetryDelay, pingInterval, baseURL,
              ident, singleton>>
loopVars == <<isRegistered, pc, retryDelay, ok, op, probe, slept, timer>>
vars == <<backend, startRetryDelay, maxRetryDelay, pingInterval, baseURL,
          ident, singleton, isRegistered, pc, retryDelay, ok, op, probe,
          slept, timer, kv, cat, shutdown, tree, call>>

\* ---------------------------------------------------------- configuration

\* getRetryDelays: a configured value wins, otherwise the default.
getRetryDelays(confStart, confMax) ==
    [startRD |-> IF confStart.ok THEN confStart.v ELSE DefaultStartRetryDelay,
     maxRD   |-> IF confMax.ok THEN confMax.v ELSE DefaultMaxRetryDelay]

ConfStartValues == {Unset} \cup {Given(n) : n \in 1..MaxConfStart}
ConfMaxValues == {Unset} \cup {Given(ConfMaxStep * k) : k \in 1..MaxConfMax}

\* ------------------------------------------------------------ etcd registry

\* RegisterService: the key of the instance directory,
\* /environments/{env}/services/{name}/{version}/instances/{id}.
etcdKeyDir(i) ==
    <<"environments", ident[i].env, "services", ident[i].name,
      ident[i].version, "instances", Uuids[i]>>

\* isServiceRegistered: the directory it reads,
\* /environments/{env}/services/{name}/{version}/instances/.
EtcdInstancesDir(i) ==
    <<"environments", ident[i].env, "services", ident[i].name,
      ident[i].version, "instances">>

\* An instance directory that does not exist, and its keys url, status and
\* gatewayUrl; ttl is what is left of the directory's TTL (s), after which
\* etcd removes it with everything below it, and 0 for a directory without
\* a TTL.
EmptyDir ==
    [dir |-> FALSE, ttl |-> 0, url |-> NoKey, status |-> NoKey,
     gatewayUrl |-> NoKey]

\* etcd creates the directories above a key it sets, and they stay when
\* the instance directory below them expires: instances/ of version v
\* exists from the first Set below it.
WithInstancesDir(v) == [tree EXCEPT !.instances = @ \cup {v}]

\* EtcdActiveInstance with isActive starting false: only a status key could
\* make an instance count.
EtcdActiveInstance_DefaultInactive(i, j) ==
    /\ kv[j].dir
    /\ SubSeq(etcdKeyDir(j), 1, Len(etcdKeyDir(j)) - 1) = EtcdInstancesDir(i)
    /\ kv[j].status \notin {NoKey, "disabled"}
    /\ kv[j].url # NoKey
    /\ kv[j].url # ""

\* isServiceRegistered's loop body: an instance directory under the one read
\* counts when its url is not empty and its status is not "disabled".  The
\* directory of the asking instance itself is among those read.
EtcdActiveInstance(i, j) ==
    /\ kv[j].dir
    /\ SubSeq(etcdKeyDir(j), 1, Len(etcdKeyDir(j)) - 1) = EtcdInstancesDir(i)
    /\ kv[j].status # "disabled"
    /\ kv[j].url # NoKey
    /\ kv[j].url # ""

\* isServiceRegistered: false when the read fails.
isServiceRegistered(i, getOk) ==
    getOk /\ \E j \in Insts : EtcdActiveInstance(i, j)

\* ---------------------------------------------------------- Consul registry

\* RegisterService: serviceInstance.id, name and versionTag.
consulId(i) == ident[i].name \o "-" \o Uuids[i]
consulName(i) == ident[i].env \o "-" \o ident[i].name
consulVersionTag(i) == <<"version=", ident[i].version>>

NoEntry == [status |-> "absent", name |-> "", tags |-> {}]

\* register: the AgentServiceRegistration; its TTL check starts critical.
ConsulRegistration(i) ==
    [status |-> "critical", name |-> consulName(i),
     tags |-> {<<"http">>, consulVersionTag(i)}]

\* Health().Service(service, tag, passingOnly): the entries of the services
\* named `service`.
ConsulHealthService(service, tag, passingOnly) ==
    {j \in Insts :
        /\ cat[j].status # "absent"
        /\ cat[j].name = service
        /\ (tag = <<>> \/ tag \in cat[j].tags)
        /\ (passingOnly => cat[j].status = "passing")}

\* isServiceRegistered: the health query is made for the service named by
\* this instance's id; false when the query fails.
consulIsServiceRegistered(i, getOk) ==
    getOk /\ ConsulHealthService(consulId(i), <<>>, TRUE) # {}

\* ------------------------------------------------------------------ run()

\* RegisteredAfter with the flag set after every register, also a failed one.
RegisteredAfter_SetAlways(i, kind, result) ==
    IF kind = "register"
        THEN TRUE
        ELSE (IF ~result THEN FALSE ELSE isRegistered[i])

\* RegisteredAfter that leaves the flag alone when a refresh fails.
RegisteredAfter_NoClear(i, kind, result) ==
    IF kind = "register"
        THEN (IF result THEN TRUE ELSE isRegistered[i])
        ELSE isRegistered[i]

\* run(): isRegistered after register() or ttlUpdate() returned `result`.
\* A successful register sets it, a failed refresh clears it.
RegisteredAfter(i, kind, result) ==
    IF kind = "register"
        THEN (IF result THEN TRUE ELSE isRegistered[i])
        ELSE (IF ~result THEN FALSE ELSE isRegistered[i])

\* run(): the time.Sleep that follows: retryDelay milliseconds after a
\* failure, PingInterval seconds after a success.
SleepOf(i, result) ==
    IF result
        THEN [unit |-> "s", n |-> pingInterval[i]]
        ELSE [unit |-> "ms", n |-> retryDelay[i]]

\* run(): the duration of that time.Sleep in milliseconds.
SleepMillis(i, result) ==
    IF result THEN pingInterval[i] * 1000 ELSE retryDelay[i]

\* NewRetryDelay without the cap.
NewRetryDelay_NoCap(i) == retryDelay[i] * 2

\* run(): the new delay after a failure, doubled and at most maxRetryDelay.
NewRetryDelay(i) ==
    IF retryDelay[i] * 2 > maxRetryDelay[i]
        THEN maxRetryDelay[i]
        ELSE retryDelay[i] * 2

\* NextRetryDelay that carries the delay over a success instead of
\* resetting it.
NextRetryDelay_NeverReset(i) ==
    IF ok[i] THEN retryDelay[i] ELSE NewRetryDelay(i)

\* run(): the argument of the recursive call, d.run(newRetryDelay) after a
\* failure and d.run(d.startRetryDelay) after a success.
NextRetryDelay(i) ==
    IF ok[i] THEN startRetryDelay[i] ELSE NewRetryDelay(i)

\* Finish that calls run() again without the time.Sleep.
Finish_NoSleep(i, kind, result) ==
    /\ ok' = [ok EXCEPT ![i] = result]
    /\ op' = [op EXCEPT ![i] = kind]
    /\ isRegistered' = [isRegistered EXCEPT ![i] = RegisteredAfter(i, kind, result)]
    /\ slept' = [slept EXCEPT ![i] = SleepOf(i, result)]
    /\ timer' = [timer EXCEPT ![i] = SleepMillis(i, result)]
    /\ pc' = [pc EXCEPT ![i] = "run"]
    /\ UNCHANGED retryDelay

\* The tail of run(): register() or ttlUpdate() has returned `result`.
Finish(i, kind, result) ==
    /\ ok' = [ok EXCEPT ![i] = result]
    /\ op' = [op EXCEPT ![i] = kind]
    /\ isRegistered' = [isRegistered EXCEPT ![i] = RegisteredAfter(i, kind, result)]
    /\ slept' = [slept EXCEPT ![i] = SleepOf(i, result)]
    /\ timer' = [timer EXCEPT ![i] = SleepMillis(i, result)]
    /\ pc' = [pc EXCEPT ![i] = "sleep"]
    /\ UNCHANGED retryDelay

\* What RegisterService returns: d.serviceInstance.id and a nil error ("").
RegisterServiceResult(i) == [serviceID |-> Uuids[i], err |-> ""]

\* RegisterService that registers before it returns: a singleton cannot
\* get through it while another instance is active.
RegisterService_Synchronous(i) ==
    /\ pc[i] = "idle"
    /\ ~(singleton[i] /\ isServiceRegistered(i, TRUE))
    /\ pc' = [pc EXCEPT ![i] = "run"]
    /\ isRegistered' = [isRegistered EXCEPT ![i] = FALSE]
    /\ retryDelay' = [retryDelay EXCEPT ![i] = startRetryDelay[i]]
    /\ UNCHANGED <<confVars, call, tree, ok, op, probe, slept, timer, kv, cat, shutdown>>

\* RegisterService: a fresh serviceInstance, and `go d.run(d.startRetryDelay)`.
RegisterService(i) ==
    /\ pc[i] = "idle"
    /\ pc' = [pc EXCEPT ![i] = "run"]
    /\ isRegistered' = [isRegistered EXCEPT ![i] = FALSE]
    /\ retryDelay' = [retryDelay EXCEPT ![i] = startRetryDelay[i]]
    /\ UNCHANGED <<confVars, call, tree, ok, op, probe, slept, timer, kv, cat, shutdown>>

\* What a probe met.
ProbeResult(getOk, found) ==
    IF ~getOk THEN "failed" ELSE IF found THEN "found" ELSE "clear"

\* etcd register(), first call: the probe.  A singleton that finds an
\* active instance returns false without writing.
EtcdProbe(i) ==
    /\ backend = "etcd"
    /\ pc[i] = "run"
    /\ ~isRegistered[i]
    /\ \E getOk \in BOOLEAN :
        /\ probe' = [probe EXCEPT ![i] =
                        ProbeResult(getOk, isServiceRegistered(i, getOk))]
        /\ IF isServiceRegistered(i, getOk) /\ singleton[i]
            THEN Finish(i, "register", FALSE)
            ELSE /\ pc' = [pc EXCEPT ![i] = "set_dir"]
                 /\ UNCHANGED <<isRegistered, retryDelay, ok, op, slept, timer>>
    /\ UNCHANGED <<confVars, call, tree, kv, cat, shutdown>>

\* EtcdSetDir with a key made anew in every attempt: the directory is set
\* under another id than the one RegisterService returned.
EtcdSetDir_FreshKey(i) ==
    /\ backend = "etcd"
    /\ pc[i] = "set_dir"
    /\ \E netOk \in BOOLEAN, j \in Insts \ {i} :
        IF netOk /\ ~kv[j].dir
            THEN /\ kv' = [kv EXCEPT ![j] = [EmptyDir EXCEPT !.dir = TRUE,
                                                           !.ttl = DefaultTTL]]
                 /\ tree' = WithInstancesDir(ident[i].version)
                 /\ pc' = [pc EXCEPT ![i] = "set_url"]
                 /\ UNCHANGED <<isRegistered, retryDelay, ok, op, slept, timer>>
            ELSE /\ Finish(i, "register", FALSE)
                 /\ UNCHANGED <<kv, tree>>
    /\ UNCHANGED <<confVars, call, probe, cat, shutdown>>

\* etcd register(), second call: Set of the instance directory with its
\* TTL.  etcd refuses to replace a directory that exists.
EtcdSetDir(i) ==
    /\ backend = "etcd"
    /\ pc[i] = "set_dir"
    /\ \E netOk \in BOOLEAN :
        IF netOk /\ ~kv[i].dir
            THEN /\ kv' = [kv EXCEPT ![i] = [EmptyDir EXCEPT !.dir = TRUE,
                                                           !.ttl = DefaultTTL]]
                 /\ tree' = WithInstancesDir(ident[i].version)
                 /\ pc' = [pc EXCEPT ![i] = "set_url"]
                 /\ UNCHANGED <<isRegistered, retryDelay, ok, op, slept, timer>>
            ELSE /\ Finish(i, "register", FALSE)
                 /\ UNCHANGED <<kv, tree>>
    /\ UNCHANGED <<confVars, call, probe, cat, shutdown>>

\* etcd register(), third call: Set of the url key to the base URL, with
\* no TTL of its own.  When the directory has expired since the second
\* call, etcd creates it again above the key, without a TTL.
EtcdSetUrl(i) ==
    /\ backend = "etcd"
    /\ pc[i] = "set_url"
    /\ \E netOk \in BOOLEAN :
        IF netOk
            THEN /\ kv' = [kv EXCEPT ![i].dir = TRUE, ![i].url = baseURL[i]]
                 /\ tree' = WithInstancesDir(ident[i].version)
                 /\ Finish(i, "register", TRUE)
            ELSE /\ Finish(i, "register", FALSE)
                 /\ UNCHANGED <<kv, tree>>
    /\ UNCHANGED <<confVars, call, probe, cat, shutdown>>

\* etcd ttlUpdate(): a refresh of the directory's TTL, which needs the
\* directory to exist (PrevExist) and gives it the TTL.
EtcdTtlUpdate(i) ==
    /\ backend = "etcd"
    /\ pc[i] = "run"
    /\ isRegistered[i]
    /\ \E netOk \in BOOLEAN :
        /\ Finish(i, "refresh", netOk /\ kv[i].dir)
        /\ kv' = IF netOk /\ kv[i].dir
                    THEN [kv EXCEPT ![i].ttl = DefaultTTL]
                    ELSE kv
    /\ UNCHANGED <<confVars, call, tree, probe, cat, shutdown>>

\* Consul register(), first call: the probe.
ConsulProbe(i) ==
    /\ backend = "consul"
    /\ pc[i] = "run"
    /\ ~isRegistered[i]
    /\ \E getOk \in BOOLEAN :
        /\ probe' = [probe EXCEPT ![i] =
                        ProbeResult(getOk, consulIsServiceRegistered(i, getOk))]
        /\ IF consulIsServiceRegistered(i, getOk) /\ singleton[i]
            THEN Finish(i, "register", FALSE)
            ELSE /\ pc' = [pc EXCEPT ![i] = "agent_register"]
                 /\ UNCHANGED <<isRegistered, retryDelay, ok, op, slept, timer>>
    /\ UNCHANGED <<confVars, call, tree, kv, cat, shutdown>>

\* Consul register(), second call: Agent().ServiceRegister.
ConsulServiceRegister(i) ==
    /\ backend = "consul"
    /\ pc[i] = "agent_register"
    /\ \E netOk \in BOOLEAN :
        /\ cat' = IF netOk THEN [cat EXCEPT ![i] = ConsulRegistration(i)]
                           ELSE cat
        /\ Finish(i, "register", netOk)
    /\ UNCHANGED <<confVars, call, tree, probe, kv, shutdown>>

\* Consul ttlUpdate(): Agent().UpdateTTL(check, note, "passing"), which
\* needs the check to exist.
ConsulTtlUpdate(i) ==
    /\ backend = "consul"
    /\ pc[i] = "run"
    /\ isRegistered[i]
    /\ \E netOk \in BOOLEAN :
        /\ cat' = IF netOk /\ cat[i].status # "absent"
                    THEN [cat EXCEPT ![i].status = "passing"]
                    ELSE cat
        /\ Finish(i, "refresh", netOk /\ cat[i].status # "absent")
    /\ UNCHANGED <<confVars, call, tree, probe, kv, shutdown>>

\* Wake that returns after a failure instead of calling run() again.
Wake_OnlyAfterSuccess(i) ==
    /\ pc[i] = "sleep"
    /\ ok[i]
    /\ pc' = [pc EXCEPT ![i] = "run"]
    /\ retryDelay' = [retryDelay EXCEPT ![i] = startRetryDelay[i]]
    /\ shutdown' = [shutdown EXCEPT ![i] =
                        IF shutdown[i] = "signalled" THEN "due" ELSE shutdown[i]]
    /\ UNCHANGED <<confVars, call, tree, isRegistered, ok, op, probe, slept, timer, kv, cat>>

\* time.Sleep returns and run() calls itself.  run() reads no shutdown
\* signal; the wake-up is only recorded.
Wake(i) ==
    /\ pc[i] = "sleep"
    /\ pc' = [pc EXCEPT ![i] = "run"]
    /\ retryDelay' = [retryDelay EXCEPT ![i] = NextRetryDelay(i)]
    /\ shutdown' = [shutdown EXCEPT ![i] =
                        IF shutdown[i] = "signalled" THEN "due" ELSE shutdown[i]]
    /\ UNCHANGED <<confVars, call, tree, isRegistered, ok, op, probe, slept, timer, kv, cat>>

\* The owning process signals shutdown to its registration loop.
SignalShutdown(i) ==
    /\ pc[i] \notin {"peer", "idle"}
    /\ shutdown[i] = "no"
    /\ shutdown' = [shutdown EXCEPT ![i] = "signalled"]
    /\ UNCHANGED <<confVars, call, tree, loopVars, kv, cat>>

\* ------------------------------------------------------------ environment

\* The TTL of an instance directory runs out: etcd removes the directory.
Expire(j) ==
    /\ backend = "etcd"
    /\ kv[j].dir
    /\ kv[j].ttl > 0
    /\ kv' = [kv EXCEPT ![j] = EmptyDir]
    /\ UNCHANGED <<confVars, call, tree, loopVars, cat, shutdown>>

\* An instance of a process outside the model registers itself in etcd.
PeerRegister(j) ==
    /\ backend = "etcd"
    /\ pc[j] = "peer"
    /\ ~kv[j].dir
    /\ \E u \in BaseURLs :
        kv' = [kv EXCEPT ![j] = [EmptyDir EXCEPT !.dir = TRUE,
                                                 !.ttl = DefaultTTL,
                                                 !.url = u]]
    /\ tree' = WithInstancesDir(ident[j].version)
    /\ UNCHANGED <<confVars, call, loopVars, cat, shutdown>>

\* An operator disables an instance by writing its status key.
Disable(j) ==
    /\ backend = "etcd"
    /\ kv[j].dir
    /\ kv[j].status = NoKey
    /\ kv' = [kv EXCEPT ![j].status = "disabled"]
    /\ UNCHANGED <<confVars, call, tree, loopVars, cat, shutdown>>

\* The TTL of a Consul check runs out: the check turns critical.
ConsulLapse(j) ==
    /\ backend = "consul"
    /\ cat[j].status = "passing"
    /\ cat' = [cat EXCEPT ![j].status = "critical"]
    /\ UNCHANGED <<confVars, call, tree, loopVars, kv, shutdown>>

\* DeregisterCriticalServiceAfter: Consul removes a critical service.
ConsulReap(j) ==
    /\ backend = "consul"
    /\ cat[j].status = "critical"
    /\ cat' = [cat EXCEPT ![j] = NoEntry]
    /\ UNCHANGED <<confVars, call, tree, loopVars, kv, shutdown>>

\* An instance of a process outside the model registers itself in Consul
\* and passes its check.
ConsulPeerRegister(j) ==
    /\ backend = "consul"
    /\ pc[j] = "peer"
    /\ cat[j].status = "absent"
    /\ cat' = [cat EXCEPT ![j] = [ConsulRegistration(j) EXCEPT !.status = "passing"]]
    /\ UNCHANGED <<confVars, call, tree, loopVars, kv, shutdown>>

\* ------------------------------------------------------- semantic versions

\* semver.Version: major, minor and patch numbers.
Version(x, y, z) == [major |-> x, minor |-> y, patch |-> z]

\* The numbers of the version strings of the model, and of the versions
\* parseVersion derives from them by one increment.
VersionNumbers == 0..(MaxPart + 1)
Versions == {Version(x, y, z) : x, y, z \in VersionNumbers}

\* The zero value of semver.Version, 0.0.0.
ZeroVersion == Version(0, 0, 0)

\* Version.String: "major.minor.patch".
VersionString(v) ==
    ToString(v.major) \o "." \o ToString(v.minor) \o "." \o ToString(v.patch)

\* Version.Compare: by major, then minor, then patch.
VersionLT(a, b) ==
    \/ a.major < b.major
    \/ a.major = b.major /\ a.minor < b.minor
    \/ a.major = b.major /\ a.minor = b.minor /\ a.patch < b.patch

\* Version.GTE and Version.EQ.
VersionGTE(a, b) == ~VersionLT(a, b)
VersionEQ(a, b) == ~VersionLT(a, b) /\ ~VersionLT(b, a)

\* A failed parse.
ParseError == [err |-> TRUE, v |-> ZeroVersion]

\* The strings semver.Parse accepts, and the version it makes of each.
StrictVersionStrings == {VersionString(v) : v \in Versions}
VersionOfString ==
    [s \in StrictVersionStrings |->
        CHOOSE v \in Versions : VersionString(v) = s]

\* semver.Parse: exactly three dot-separated numbers.
SemverParse(s) ==
    IF s \in StrictVersionStrings
        THEN [err |-> FALSE, v |-> VersionOfString[s]]
        ELSE ParseError

\* The strings of one and of two dot-separated numbers.
MajorStrings == {ToString(x) : x \in VersionNumbers}
MajorMinorStrings ==
    {ToString(x) \o "." \o ToString(y) : x, y \in VersionNumbers}

\* semver.ParseTolerant: missing minor and patch numbers are taken as 0,
\* then semver.Parse.
ParseTolerant(s) ==
    IF s \in MajorStrings
        THEN SemverParse(s \o ".0.0")
        ELSE IF s \in MajorMinorStrings
            THEN SemverParse(s \o ".0")
            ELSE SemverParse(s)

\* One comparator of a range string: an operator and a version string.
Comparator(o, s) == [op |-> o, ver |-> s]

\* The comparison an operator of a range stands for.
CompareOp(o, v, w) ==
    CASE o \in {"", "=", "=="} -> VersionEQ(v, w)
      [] o = ">=" -> VersionGTE(v, w)
      [] o = ">" -> VersionLT(w, v)
      [] o = "<=" -> VersionGTE(w, v)
      [] o = "<" -> VersionLT(v, w)
      [] OTHER -> FALSE

RangeOps == {"", "=", "==", ">=", ">", "<=", "<"}

\* semver.ParseRange of space-separated comparators: every one needs a
\* known operator and a version semver.Parse accepts, and there has to be
\* one at least ("x", which has no digit, is none).
ParseRange(comparators) ==
    IF \/ comparators = <<>>
       \/ \E k \in DOMAIN comparators :
            \/ comparators[k].op \notin RangeOps
            \/ SemverParse(comparators[k].ver).err
        THEN [err |-> TRUE, range |-> <<>>]
        ELSE [err |-> FALSE,
              range |-> [k \in DOMAIN comparators |->
                            [op |-> comparators[k].op,
                             v |-> SemverParse(comparators[k].ver).v]]]

\* A semver.Range applied to a version: all its comparators hold.
InRange(range, v) ==
    \A k \in DOMAIN range : CompareOp(range[k].op, v, range[k].v)

\* parseVersion, caret branch: verNext is ver with Major incremented.
CaretNext(ver) == [ver EXCEPT !.major = @ + 1]

\* parseVersion, tilde branch: verNext is ver with Minor incremented.
TildeNext(ver) == [ver EXCEPT !.minor = @ + 1]

\* parseVersion: "*" becomes "x"; "^v" is the range ">=v <verNext" with
\* v read by ParseTolerant, and so is "~v"; anything else goes to
\* semver.ParseRange as it is.  A version string is one comparator whose
\* operator is "^", "~" or a range operator.
parseVersion(version) ==
    LET replaced == [k \in DOMAIN version |->
                        IF version[k].ver = "*"
                            THEN [version[k] EXCEPT !.ver = "x"]
                            ELSE version[k]]
        rest == IF Len(replaced) = 1 THEN ParseTolerant(replaced[1].ver)
                ELSE ParseError
    IN  IF replaced # <<>> /\ replaced[1].op = "^"
            THEN IF rest.err THEN [err |-> TRUE, range |-> <<>>]
                 ELSE ParseRange(<<Comparator(">=", VersionString(rest.v)),
                                   Comparator("<", VersionString(CaretNext(rest.v)))>>)
        ELSE IF replaced # <<>> /\ replaced[1].op = "~"
            THEN IF rest.err THEN [err |-> TRUE, range |-> <<>>]
                 ELSE ParseRange(<<Comparator(">=", VersionString(rest.v)),
                                   Comparator("<", VersionString(TildeNext(rest.v)))>>)
        ELSE ParseRange(replaced)

\* ---------------------------------------------------------------- discovery

\* The version strings instances are registered with: full, partial and one
\* that is no version.
DiscVersionSeq == <<"0.0.0", "1.0", "latest">>
DiscVersionTags == {DiscVersionSeq[k] : k \in DOMAIN DiscVersionSeq}
DiscIdents ==
    {[env |-> "dev", name |-> "svc", version |-> v] : v \in DiscVersionTags}

\* The URL an API gateway's registrar writes to a gatewayUrl key, and the
\* versions it fronts.
GatewayURL == "http://gateway"
GatewayVersions == {"1.0"}

\* Possible access types for DiscoverOptions.AccessType.
AccessTypeDirect == "direct"
AccessTypeGateway == "gateway"

\* DiscoverOptions.
DiscoverOptions(value, environment, version, accessType) ==
    [Value |-> value, Environment |-> environment, Version |-> version,
     AccessType |-> accessType]

\* fillDefaultDiscoverOptions with the access type direct as the default.
fillDefaultDiscoverOptions_DirectDefault(options) ==
    [Value |-> options.Value,
     Environment |-> IF options.Environment = "" THEN "dev"
                     ELSE options.Environment,
     Version |-> IF options.Version = <<>>
                    THEN <<Comparator(">=", "0.0.0")>>
                    ELSE options.Version,
     AccessType |-> IF options.AccessType = "" THEN AccessTypeDirect
                    ELSE options.AccessType]

\* fillDefaultDiscoverOptions: environment "dev", version ">=0.0.0", access
\* type gateway.
fillDefaultDiscoverOptions(options) ==
    [Value |-> options.Value,
     Environment |-> IF options.Environment = "" THEN "dev"
                     ELSE options.Environment,
     Version |-> IF options.Version = <<>>
                    THEN <<Comparator(">=", "0.0.0")>>
                    ELSE options.Version,
     AccessType |-> IF options.AccessType = "" THEN AccessTypeGateway
                    ELSE options.AccessType]

\* extractServicesWithVersion, first loop: the latest version among the
\* services in range, starting from the zero Version.
LatestVersion(services, wantVersion) ==
    LET inRange == {s.version : s \in {t \in services :
                                            InRange(wantVersion, t.version)}}
    IN  IF inRange = {} THEN ZeroVersion
        ELSE CHOOSE v \in inRange : \A w \in inRange : VersionGTE(v, w)

\* extractServicesWithVersion: the services whose version equals the
\* latest version found.
extractServicesWithVersion(services, wantVersion) ==
    {s \in services : VersionEQ(s.version, LatestVersion(services, wantVersion))}

\* The version nodes the recursive Get of
\* environments/{env}/services/{name}/ returns: those with an instances/
\* directory or a gatewayUrl key below them.
EtcdVersionNodes(options) ==
    IF options.Environment = "dev" /\ options.Value = "svc"
        THEN tree.instances \cup
             {v \in DOMAIN tree.gatewayUrl : tree.gatewayUrl[v] # NoKey}
        ELSE {}

\* The value of a key that may not exist, as a node loop leaves it in a
\* discoveredService field: "" when the key does not exist.
ValueOrEmpty(value) == IF value = NoKey THEN "" ELSE value

\* EtcdDiscoveredInstances that keeps the instances of a version whose
\* name ParseTolerant rejects, with the zero Version.
EtcdDiscoveredInstances_KeepUnparsed(dirs, options) ==
    {[id |-> j,
      version |-> ParseTolerant(ident[j].version).v,
      directURL |-> ValueOrEmpty(dirs[j].url),
      gatewayURL |-> ValueOrEmpty(dirs[j].gatewayUrl)] :
        j \in {k \in Insts :
                /\ dirs[k].dir
                /\ ident[k].env = options.Environment
                /\ ident[k].name = options.Value
                /\ ident[k].version \in EtcdVersionNodes(options)}}

\* DiscoverService, the loops over versions and instances: one
\* discoveredService per instance directory, none for a version whose name
\* ParseTolerant rejects.  gatewayURL comes from the gatewayUrl key inside
\* the instance directory.  `dirs` are the instance directories read.
EtcdDiscoveredInstances(dirs, options) ==
    {[id |-> j,
      version |-> ParseTolerant(ident[j].version).v,
      directURL |-> ValueOrEmpty(dirs[j].url),
      gatewayURL |-> ValueOrEmpty(dirs[j].gatewayUrl)] :
        j \in {k \in Insts :
                /\ dirs[k].dir
                /\ ident[k].env = options.Environment
                /\ ident[k].name = options.Value
                /\ ident[k].version \in EtcdVersionNodes(options)
                /\ ~ParseTolerant(ident[k].version).err}}

\* What DiscoverService returns: an address and no error, or no address
\* and an error; `picked` is randomInstance, 0 when the call returns before
\* the pick.
Found(url, j) == [err |-> "", url |-> url, picked |-> j]
Failed(e) == [err |-> e, url |-> "", picked |-> 0]
NoURL(j) ==
    [err |-> "No service found (no service with URL)", url |-> "",
     picked |-> j]

\* PickOutcomes that goes on with a range matching every version when
\* parseVersion fails.
PickOutcomes_SwallowParseError(discoveredInstances, options) ==
    LET wantVersion == parseVersion(options.Version)
        instances ==
            IF wantVersion.err THEN discoveredInstances
            ELSE extractServicesWithVersion(discoveredInstances,
                                            wantVersion.range)
    IN  IF instances = {}
            THEN {Failed("No service found (no matching version)")}
        ELSE {IF options.AccessType = AccessTypeGateway
                    /\ randomInstance.gatewayURL # ""
                THEN Found(randomInstance.gatewayURL, randomInstance.id)
              ELSE IF randomInstance.directURL # ""
                THEN Found(randomInstance.directURL, randomInstance.id)
              ELSE NoURL(randomInstance.id) :
                randomInstance \in instances}

\* PickOutcomes that returns the gateway URL whenever there is one, also
\* for the access type direct.
PickOutcomes_GatewayAlways(discoveredInstances, options) ==
    LET wantVersion == parseVersion(options.Version)
        instances ==
            extractServicesWithVersion(discoveredInstances, wantVersion.range)
    IN  IF wantVersion.err THEN {Failed("wantVersion parse error")}
        ELSE IF instances = {}
            THEN {Failed("No service found (no matching version)")}
        ELSE {IF randomInstance.gatewayURL # ""
                THEN Found(randomInstance.gatewayURL, randomInstance.id)
              ELSE IF randomInstance.directURL # ""
                THEN Found(randomInstance.directURL, randomInstance.id)
              ELSE NoURL(randomInstance.id) :
                randomInstance \in instances}

\* The tail of DiscoverService shared by both sources: parseVersion,
\* extractServicesWithVersion, the random pick and the choice of its URL.
PickOutcomes(discoveredInstances, options) ==
    LET wantVersion == parseVersion(options.Version)
        instances ==
            extractServicesWithVersion(discoveredInstances, wantVersion.range)
    IN  IF wantVersion.err THEN {Failed("wantVersion parse error")}
        ELSE IF instances = {}
            THEN {Failed("No service found (no matching version)")}
        ELSE {IF options.AccessType = AccessTypeGateway
                    /\ randomInstance.gatewayURL # ""
                THEN Found(randomInstance.gatewayURL, randomInstance.id)
              ELSE IF randomInstance.directURL # ""
                THEN Found(randomInstance.directURL, randomInstance.id)
              ELSE NoURL(randomInstance.id) :
                randomInstance \in instances}

\* etcd DiscoverService: the Get fails when the request fails or the
\* directory does not exist; a version node without an instances/ child
\* leaves `instances` nil, and the loop over instances.Nodes panics.
EtcdDiscoverOutcomes(dirs, given, getOk) ==
    LET options == fillDefaultDiscoverOptions(given)
    IN  IF ~getOk THEN {Failed("registry")}
        ELSE IF EtcdVersionNodes(options) = {}
            THEN {Failed("100: Key not found")}
        ELSE IF \E v \in EtcdVersionNodes(options) : v \notin tree.instances
            THEN {Failed("panic")}
        ELSE PickOutcomes(EtcdDiscoveredInstances(dirs, options), options)

\* EtcdDiscover that stores the gateway URL it returns in the gatewayUrl
\* key of the instance it picked.
EtcdDiscover_WritesGatewayUrl(given) ==
    /\ backend = "etcd"
    /\ \E getOk \in BOOLEAN :
        \E result \in EtcdDiscoverOutcomes(kv, given, getOk) :
            /\ call' = [kind |-> "discover", options |-> given,
                        reads |-> 1, result |-> result]
            /\ kv' = [j \in Insts |->
                        IF j = result.picked
                            THEN [kv[j] EXCEPT !.gatewayUrl = GatewayURL]
                            ELSE kv[j]]
    /\ UNCHANGED <<confVars, loopVars, cat, shutdown, tree>>

\* EtcdDiscover that reads the directory a second time when the first Get
\* failed.
EtcdDiscover_RetriesRead(given) ==
    /\ backend = "etcd"
    /\ \E first, second \in BOOLEAN :
        \E result \in EtcdDiscoverOutcomes(kv, given, first \/ second) :
            call' = [kind |-> "discover", options |-> given,
                     reads |-> IF first THEN 1 ELSE 2, result |-> result]
    /\ UNCHANGED <<confVars, loopVars, kv, cat, shutdown, tree>>

\* A call of etcd DiscoverService: one recursive Get, whose failure is
\* returned, and no further registry request; `reads` counts the Gets.
EtcdDiscover(given) ==
    /\ backend = "etcd"
    /\ \E getOk \in BOOLEAN :
        \E result \in EtcdDiscoverOutcomes(kv, given, getOk) :
            call' = [kind |-> "discover", options |-> given,
                     reads |-> 1, result |-> result]
    /\ UNCHANGED <<confVars, loopVars, kv, cat, shutdown, tree>>

\* The caller of DiscoverService has used what the call returned.
DiscoverReturn ==
    /\ call.kind = "discover"
    /\ call' = NoCall
    /\ UNCHANGED <<confVars, loopVars, kv, cat, shutdown, tree>>

\* The registrar of an API gateway writes the gatewayUrl key of a version.
SetGatewayUrl(v) ==
    /\ backend = "etcd"
    /\ tree.gatewayUrl[v] = NoKey
    /\ tree' = [tree EXCEPT !.gatewayUrl[v] = GatewayURL]
    /\ UNCHANGED <<confVars, loopVars, kv, cat, shutdown, call>>

\* Somebody writes a gatewayUrl key into an instance directory.
SetInstanceGatewayUrl(j) ==
    /\ backend = "etcd"
    /\ kv[j].dir
    /\ kv[j].gatewayUrl = NoKey
    /\ kv' = [kv EXCEPT ![j].gatewayUrl = GatewayURL]
    /\ UNCHANGED <<confVars, loopVars, cat, shutdown, tree, call>>

\* What pickRandomServiceInstance returns: the address, the error ("" for
\* nil) and randomInstance, 0 when it returns before the pick.
Picked(service, err, j) == [service |-> service, err |-> err, picked |-> j]

\* pickRandomServiceInstance: every failure returns lastKnownService, which
\* is "" when there is none, together with the error.
pickRandomServiceInstance(discoveredInstances, options, lastKnownService) ==
    LET wantVersion == parseVersion(options.Version)
        instances ==
            extractServicesWithVersion(discoveredInstances, wantVersion.range)
    IN  IF wantVersion.err
            THEN {Picked(lastKnownService, "wantVersion parse error", 0)}
        ELSE IF instances = {}
            THEN {Picked(lastKnownService,
                         "No service found (no matching version)", 0)}
        ELSE {IF options.AccessType = AccessTypeGateway
                    /\ randomInstance.gatewayURL # ""
                THEN Picked(randomInstance.gatewayURL, "", randomInstance.id)
              ELSE IF randomInstance.directURL # ""
                THEN Picked(randomInstance.directURL, "", randomInstance.id)
              ELSE Picked(lastKnownService,
                          "No service found (no service with URL)",
                          randomInstance.id) :
                randomInstance \in instances}

\* A call of pickRandomServiceInstance and its return.
PickInstance(discoveredInstances, options, lastKnownService) ==
    /\ call = NoCall
    /\ \E result \in pickRandomServiceInstance(discoveredInstances, options,
                                               lastKnownService) :
        call' = [kind |-> "pick", instances |-> discoveredInstances,
                 options |-> options, lastKnown |-> lastKnownService,
                 result |-> result]
    /\ UNCHANGED <<confVars, loopVars, kv, cat, shutdown, tree>>

PickReturn ==
    /\ call.kind = "pick"
    /\ call' = NoCall
    /\ UNCHANGED <<confVars, loopVars, kv, cat, shutdown, tree>>

\* ------------------------------------------------ registration configuration

\* A string key the configuration file does not hold, and one it holds.
NotInFile == [ok |-> FALSE, v |-> ""]
InFile(s) == [ok |-> TRUE, v |-> s]

\* RegisterOptions and registerConfiguration (without the server's fields).
RegisterOptions(value, environment, version, ttl, ping) ==
    [Value |-> value, Environment |-> environment, Version |-> version,
     TTL |-> ttl, PingInterval |-> ping]

registerConfiguration(name, envName, version, ttl, ping) ==
    [Name |-> name, EnvName |-> envName, Version |-> version,
     TTL |-> ttl, PingInterval |-> ping]

\* config.NewBundle: a field whose key the configuration holds takes the
\* configured value, every other field keeps its value.
NewBundle(regconf, file) ==
    registerConfiguration(
        IF file.Name.ok THEN file.Name.v ELSE regconf.Name,
        IF file.EnvName.ok THEN file.EnvName.v ELSE regconf.EnvName,
        IF file.Version.ok THEN file.Version.v ELSE regconf.Version,
        IF file.TTL.ok THEN file.TTL.v ELSE regconf.TTL,
        IF file.PingInterval.ok THEN file.PingInterval.v
        ELSE regconf.PingInterval)

\* loadServiceRegisterConfiguration that loads the configuration file
\* last, so that it overrides the RegisterOptions.
loadServiceRegisterConfiguration_FileLast(file, regOptions) ==
    LET defaults == registerConfiguration("", "dev", "1.0.0", DefaultTTL,
                                          DefaultPingInterval)
    IN  NewBundle(
            registerConfiguration(
                IF regOptions.Value # "" THEN regOptions.Value
                ELSE defaults.Name,
                IF regOptions.Environment # "" THEN regOptions.Environment
                ELSE defaults.EnvName,
                IF regOptions.Version # "" THEN regOptions.Version
                ELSE defaults.Version,
                IF regOptions.TTL # 0 THEN regOptions.TTL ELSE defaults.TTL,
                IF regOptions.PingInterval # 0 THEN regOptions.PingInterval
                ELSE defaults.PingInterval),
            file)

\* loadServiceRegisterConfiguration: the defaults, overridden by the
\* configuration file, overridden by the RegisterOptions that are not the
\* zero value.
loadServiceRegisterConfiguration(file, regOptions) ==
    LET defaults == registerConfiguration("", "dev", "1.0.0", DefaultTTL,
                                          DefaultPingInterval)
        regconf == NewBundle(defaults, file)
    IN  registerConfiguration(
            IF regOptions.Value # "" THEN regOptions.Value ELSE regconf.Name,
            IF regOptions.Environment # "" THEN regOptions.Environment
            ELSE regconf.EnvName,
            IF regOptions.Version # "" THEN regOptions.Version
            ELSE regconf.Version,
            IF regOptions.TTL # 0 THEN regOptions.TTL ELSE regconf.TTL,
            IF regOptions.PingInterval # 0 THEN regOptions.PingInterval
            ELSE regconf.PingInterval)

\* The configuration a discovery source loads when it is set up: the
\* registration configuration and the two retry delays.
LoadConfiguration(file, confStart, confMax, regOptions) ==
    /\ call = NoCall
    /\ call' = [kind |-> "load", file |-> file, confStart |-> confStart,
                confMax |-> confMax, regOptions |-> regOptions,
                regconf |-> loadServiceRegisterConfiguration(file, regOptions),
                delays |-> getRetryDelays(confStart, confMax)]
    /\ UNCHANGED <<confVars, loopVars, kv, cat, shutdown, tree>>

LoadReturn ==
    /\ call.kind = "load"
    /\ call' = NoCall
    /\ UNCHANGED <<confVars, loopVars, kv, cat, shutdown, tree>>

\* ------------------------------ consul_discovery.go: register and checkIn

\* isServiceRegistered of consul_discovery.go: the passing entries of the
\* service named by reg.id that carry reg.versionTag; false when the
\* query fails.
checkInIsServiceRegistered(i, getOk) ==
    getOk /\ ConsulHealthService(consulId(i), consulVersionTag(i), TRUE) # {}

\* RegisterService of consul_discovery.go: it calls
\* d.register(&regService, d.startRetryDelay) itself, before it starts the
\* checkIn goroutine and returns.
checkInRegisterService(i) ==
    /\ backend = "consul"
    /\ pc[i] = "idle"
    /\ pc' = [pc EXCEPT ![i] = "register"]
    /\ isRegistered' = [isRegistered EXCEPT ![i] = FALSE]
    /\ retryDelay' = [retryDelay EXCEPT ![i] = startRetryDelay[i]]
    /\ UNCHANGED <<confVars, call, tree, ok, op, probe, slept, timer, kv, cat, shutdown>>

\* register(), first call: the probe.  A singleton that finds itself
\* registered returns without registering; RegisterService then starts
\* `go d.checkIn(&regService, d.startRetryDelay)`.
registerProbe(i) ==
    /\ backend = "consul"
    /\ pc[i] = "register"
    /\ \E getOk \in BOOLEAN :
        /\ probe' = [probe EXCEPT ![i] =
                        ProbeResult(getOk, checkInIsServiceRegistered(i, getOk))]
        /\ IF checkInIsServiceRegistered(i, getOk) /\ singleton[i]
            THEN /\ pc' = [pc EXCEPT ![i] = "checkIn"]
                 /\ op' = [op EXCEPT ![i] = "register"]
                 /\ ok' = [ok EXCEPT ![i] = FALSE]
                 /\ retryDelay' = [retryDelay EXCEPT ![i] = startRetryDelay[i]]
            ELSE /\ pc' = [pc EXCEPT ![i] = "service_register"]
                 /\ UNCHANGED <<retryDelay, ok, op>>
    /\ UNCHANGED <<confVars, call, tree, isRegistered, slept, timer, kv, cat, shutdown>>

\* register(), second call: Agent().ServiceRegister.  On an error it
\* sleeps retryDelay ms; on success it sets reg.isRegistered and returns,
\* and RegisterService starts `go d.checkIn(&regService, d.startRetryDelay)`.
registerServiceRegister(i) ==
    /\ backend = "consul"
    /\ pc[i] = "service_register"
    /\ \E netOk \in BOOLEAN :
        /\ cat' = IF netOk THEN [cat EXCEPT ![i] = ConsulRegistration(i)]
                           ELSE cat
        /\ ok' = [ok EXCEPT ![i] = netOk]
        /\ op' = [op EXCEPT ![i] = "register"]
        /\ isRegistered' = [isRegistered EXCEPT ![i] = netOk \/ @]
        /\ pc' = [pc EXCEPT ![i] = IF netOk THEN "checkIn" ELSE "register_sleep"]
        /\ slept' = [slept EXCEPT ![i] =
                        IF netOk THEN @ ELSE [unit |-> "ms", n |-> retryDelay[i]]]
        /\ timer' = [timer EXCEPT ![i] = IF netOk THEN @ ELSE retryDelay[i]]
        /\ retryDelay' = [retryDelay EXCEPT ![i] =
                            IF netOk THEN startRetryDelay[i] ELSE @]
    /\ UNCHANGED <<confVars, call, tree, probe, kv, shutdown>>

\* register(): the sleep after a failed ServiceRegister returns, and
\* register calls itself with the doubled, capped delay.
registerRetry(i) ==
    /\ backend = "consul"
    /\ pc[i] = "register_sleep"
    /\ pc' = [pc EXCEPT ![i] = "register"]
    /\ retryDelay' = [retryDelay EXCEPT ![i] = NewRetryDelay(i)]
    /\ UNCHANGED <<confVars, call, tree, isRegistered, ok, op, probe, slept, timer, kv, cat, shutdown>>

\* checkIn(): Agent().UpdateTTL(check, note, "passing"), which needs the
\* check to exist, then the sleep: retryDelay ms after an error,
\* PingInterval s otherwise.  reg.isRegistered is neither read nor written.
checkIn(i) ==
    /\ backend = "consul"
    /\ pc[i] = "checkIn"
    /\ \E netOk \in BOOLEAN :
        /\ cat' = IF netOk /\ cat[i].status # "absent"
                    THEN [cat EXCEPT ![i].status = "passing"]
                    ELSE cat
        /\ ok' = [ok EXCEPT ![i] = netOk /\ cat[i].status # "absent"]
        /\ op' = [op EXCEPT ![i] = "refresh"]
        /\ slept' = [slept EXCEPT ![i] = SleepOf(i, netOk /\ cat[i].status # "absent")]
        /\ timer' = [timer EXCEPT ![i] = SleepMillis(i, netOk /\ cat[i].status # "absent")]
        /\ pc' = [pc EXCEPT ![i] = "checkIn_sleep"]
    /\ UNCHANGED <<confVars, call, tree, isRegistered, retryDelay, probe, kv, shutdown>>

\* checkIn(): the sleep returns and checkIn calls itself, with the doubled,
\* capped delay after an error and with d.startRetryDelay otherwise.
checkInAgain(i) ==
    /\ backend = "consul"
    /\ pc[i] = "checkIn_sleep"
    /\ pc' = [pc EXCEPT ![i] = "checkIn"]
    /\ retryDelay' = [retryDelay EXCEPT ![i] = NextRetryDelay(i)]
    /\ UNCHANGED <<confVars, call, tree, isRegistered, ok, op, probe, slept, timer, kv, cat, shutdown>>

\* --------------------------------------------------- Consul DiscoverService

\* The address Consul holds for an instance: Service.Address or, when that
\* is empty, Node.Address, and Service.Port.
ConsulAddress(j) == "node" \o ToString(j) \o ":9000"

\* Consul DiscoverService, the loop over the service entries: one
\* discoveredService per entry whose version tag ParseTolerant accepts,
\* with the direct URL protocol://address:port and the gateway URL read
\* from the key-value store.
ConsulDiscoveredInstances(entries, options) ==
    {[id |-> j,
      version |-> ParseTolerant(ident[j].version).v,
      directURL |-> "http://" \o ConsulAddress(j),
      gatewayURL |->
        IF /\ options.Environment = "dev" /\ options.Value = "svc"
           /\ VersionString(ParseTolerant(ident[j].version).v)
                    \in DOMAIN tree.gatewayUrl
            THEN ValueOrEmpty(tree.gatewayUrl[
                    VersionString(ParseTolerant(ident[j].version).v)])
            ELSE ""] :
        j \in {k \in entries :
                /\ consulVersionTag(k) \in cat[k].tags
                /\ ~ParseTolerant(ident[k].version).err}}

\* Consul DiscoverService: the passing entries of the service named
\* Environment + "-" + Value, then the tail shared with etcd.
ConsulDiscoverOutcomes(given, getOk) ==
    LET options == fillDefaultDiscoverOptions(given)
        queryServiceName == options.Environment \o "-" \o options.Value
        serviceEntries == ConsulHealthService(queryServiceName, <<>>, TRUE)
    IN  IF ~getOk THEN {Failed("registry")}
        ELSE PickOutcomes(ConsulDiscoveredInstances(serviceEntries, options),
                          options)

\* A call of Consul DiscoverService: one health query, whose failure is
\* returned.
ConsulDiscover(given) ==
    /\ backend = "consul"
    /\ \E getOk \in BOOLEAN :
        \E result \in ConsulDiscoverOutcomes(given, getOk) :
            call' = [kind |-> "discover", options |-> given,
                     reads |-> 1, result |-> result]
    /\ UNCHANGED <<confVars, loopVars, kv, cat, shutdown, tree>>

\* ---------------------------------------------------------- specifications

NoSleep == [unit |-> "none", n |-> 0]

\* The state before any RegisterService call: the processes `procs` use
\* backend b with a configuration whose retry delays are drawn from CS and
\* CM; the other instances belong to processes outside the model.
InitWith(b, procs, CS, CM) ==
    /\ backend = b
    /\ \E cs \in CS, cm \in CM :
        /\ startRetryDelay = [i \in Insts |-> getRetryDelays(cs, cm).startRD]
        /\ maxRetryDelay = [i \in Insts |-> getRetryDelays(cs, cm).maxRD]
    /\ pingInterval = [i \in Insts |-> DefaultPingInterval]
    /\ baseURL \in [Insts -> BaseURLs]
    /\ \A i \in Insts \ procs : baseURL[i] = ""
    /\ ident \in [Insts -> Idents]
    /\ ident[1].version = "1.0.0"
    /\ singleton \in [Insts -> BOOLEAN]
    /\ \A i \in Insts \ procs : ~singleton[i]
    /\ isRegistered = [i \in Insts |-> FALSE]
    /\ pc = [i \in Insts |-> IF i \in procs THEN "idle" ELSE "peer"]
    /\ retryDelay = [i \in Insts |-> 0]
    /\ ok = [i \in Insts |-> FALSE]
    /\ op = [i \in Insts |-> "none"]
    /\ probe = [i \in Insts |-> "none"]
    /\ slept = [i \in Insts |-> NoSleep]
    /\ timer = [i \in Insts |-> 0]
    /\ kv = [i \in Insts |-> EmptyDir]
    /\ cat = [i \in Insts |-> NoEntry]
    /\ shutdown = [i \in Insts |-> "no"]
    /\ tree = [instances |-> {id.version : id \in Idents},
               gatewayUrl |-> [v \in {id.version : id \in Idents} |-> NoKey]]
    /\ call = NoCall

\* A registry operation of instance i's loop on etcd.
EtcdOp(i) ==
    \/ EtcdProbe(i)
    \/ EtcdSetDir(i)
    \/ EtcdSetUrl(i)
    \/ EtcdTtlUpdate(i)

\* A step of instance i's loop on etcd.
EtcdLoop(i) ==
    \/ EtcdOp(i)
    \/ Wake(i)

\* One process on etcd, with any configuration, among instances of other
\* processes.
Init == InitWith("etcd", {1}, ConfStartValues, ConfMaxValues)

Next ==
    \/ \E i \in Insts : RegisterService(i)
    \/ \E i \in Insts : EtcdLoop(i)
    \/ \E j \in Insts : Expire(j)
    \/ \E j \in Insts : PeerRegister(j)
    \/ \E j \in Insts : Disable(j)

Spec == Init /\ [][Next]_vars

\* The same process with max-retry-delay-ms configured, among instances of
\* its own service and version, the goroutine of every started loop
\* scheduled again and again, and every registry call and sleep returning.
InitFair ==
    /\ InitWith("etcd", {1}, ConfStartValues, ConfMaxValues \ {Unset})
    /\ \A j \in Insts : ident[j] = ident[1]

SpecFair ==
    InitFair /\ [][Next]_vars /\ \A i \in Insts : WF_vars(EtcdLoop(i))

\* The same process, whose owner may signal shutdown at any time after
\* RegisterService.
NextShutdown ==
    \/ Next
    \/ \E i \in Insts : SignalShutdown(i)

SpecShutdown == Init /\ [][NextShutdown]_vars

\* Replicas of one singleton service on etcd: every instance is a process
\* of the model, with the same environment, name, version and configuration.
InitSingleton ==
    /\ InitWith("etcd", Insts, {Given(1)}, {Given(ConfMaxStep)})
    /\ \A i \in Insts : singleton[i] /\ ident[i] = ident[1] /\ baseURL[i] # ""

NextSingleton ==
    \/ \E i \in Insts : RegisterService(i)
    \/ \E i \in Insts : EtcdLoop(i)
    \/ \E j \in Insts : Expire(j)

SpecSingleton == InitSingleton /\ [][NextSingleton]_vars

\* A registry operation of instance i's loop on Consul.
ConsulOp(i) ==
    \/ ConsulProbe(i)
    \/ ConsulServiceRegister(i)
    \/ ConsulTtlUpdate(i)

\* One process on Consul among instances of other processes.
InitConsul == InitWith("consul", {1}, ConfStartValues, {Given(ConfMaxStep)})

NextConsul ==
    \/ \E i \in Insts : RegisterService(i)
    \/ \E i \in Insts : ConsulOp(i)
    \/ \E i \in Insts : Wake(i)
    \/ \E j \in Insts : ConsulLapse(j)
    \/ \E j \in Insts : ConsulReap(j)
    \/ \E j \in Insts : ConsulPeerRegister(j)

SpecConsul == InitConsul /\ [][NextConsul]_vars

\* The version strings "x.y.z" with numbers up to MaxPart.
FullVersionStrings ==
    {VersionString(Version(x, y, z)) : x, y, z \in 0..MaxPart}

\* options.Version of the form "^x.y.z" and "~x.y.z".
CaretConstraint(s) == <<Comparator("^", s)>>
TildeConstraint(s) == <<Comparator("~", s)>>

\* extractServicesWithVersion's test of one instance, wantVersion(s.version):
\* the range parseVersion makes of the constraint, applied to the version
\* ParseTolerant makes of the instance's version string.
MatchVersion(version, tag) ==
    /\ call' = [kind |-> "match", version |-> version, tag |-> tag,
                err |-> parseVersion(version).err,
                accepted |-> /\ ~parseVersion(version).err
                             /\ ~ParseTolerant(tag).err
                             /\ InRange(parseVersion(version).range,
                                        ParseTolerant(tag).v)]
    /\ UNCHANGED <<confVars, loopVars, kv, cat, shutdown, tree>>

\* A process that has not registered, asked to match version strings.
InitMatcher ==
    /\ InitWith("etcd", {1}, {Unset}, {Unset})
    /\ \A i \in Insts : ident[i] = ident[1] /\ baseURL[i] = "" /\ ~singleton[i]

NextMatcher ==
    \/ \E s \in FullVersionStrings, tag \in FullVersionStrings :
        MatchVersion(CaretConstraint(s), tag)
    \/ \E s \in FullVersionStrings, tag \in FullVersionStrings :
        MatchVersion(TildeConstraint(s), tag)

SpecMatcher == InitMatcher /\ [][NextMatcher]_vars

\* The version constraints discovery is asked with: none, "*", a caret
\* range, one version, and one that is no range.
DiscVersionOptions ==
    {<<>>, <<Comparator("", "*")>>, CaretConstraint("1.0.0"),
     <<Comparator("", "0.0.0")>>, <<Comparator("", "latest")>>}

\* The DiscoverOptions of the model: the registered service and one that
\* was never registered.
DiscOptions ==
    {DiscoverOptions("svc", "", version, accessType) :
        version \in DiscVersionOptions,
        accessType \in {AccessTypeDirect, AccessTypeGateway}}
    \cup {DiscoverOptions(value, "", <<>>, "") : value \in {"svc", "other"}}

\* A fresh etcd, instances of processes outside the model that register
\* and expire, gatewayUrl keys written from outside, and a process that
\* discovers.  Instances are numbered in the order of their versions.
InitDiscover ==
    /\ backend = "etcd"
    /\ startRetryDelay = [i \in Insts |-> DefaultStartRetryDelay]
    /\ maxRetryDelay = [i \in Insts |-> DefaultMaxRetryDelay]
    /\ pingInterval = [i \in Insts |-> DefaultPingInterval]
    /\ baseURL = [i \in Insts |-> ""]
    /\ \E order \in [Insts -> DOMAIN DiscVersionSeq] :
        /\ \A i, j \in Insts : i <= j => order[i] <= order[j]
        /\ ident = [i \in Insts |->
                        [env |-> "dev", name |-> "svc",
                         version |-> DiscVersionSeq[order[i]]]]
    /\ singleton = [i \in Insts |-> FALSE]
    /\ isRegistered = [i \in Insts |-> FALSE]
    /\ pc = [i \in Insts |-> "peer"]
    /\ retryDelay = [i \in Insts |-> 0]
    /\ ok = [i \in Insts |-> FALSE]
    /\ op = [i \in Insts |-> "none"]
    /\ probe = [i \in Insts |-> "none"]
    /\ slept = [i \in Insts |-> NoSleep]
    /\ timer = [i \in Insts |-> 0]
    /\ kv = [i \in Insts |-> EmptyDir]
    /\ cat = [i \in Insts |-> NoEntry]
    /\ shutdown = [i \in Insts |-> "no"]
    /\ tree = [instances |-> {},
               gatewayUrl |-> [v \in GatewayVersions |-> NoKey]]
    /\ call = NoCall

\* The registry changes between the calls of the client; a call reads it
\* once, so its result is looked at in the state it was made in.
NextDiscover ==
    \/ \E j \in Insts : call = NoCall /\ PeerRegister(j)
    \/ \E j \in Insts : call = NoCall /\ Expire(j)
    \/ \E j \in Insts : call = NoCall /\ SetInstanceGatewayUrl(j)
    \/ \E v \in GatewayVersions : call = NoCall /\ SetGatewayUrl(v)
    \/ \E given \in DiscOptions : call = NoCall /\ EtcdDiscover(given)
    \/ DiscoverReturn

SpecDiscover == InitDiscover /\ [][NextDiscover]_vars

\* The options a client discovers the replicas' service with: its
\* environment and name, no version or the caret range of its version, and
\* the direct URL.
RoundTripOptions ==
    {DiscoverOptions("svc", "dev", version, AccessTypeDirect) :
        version \in {<<>>, CaretConstraint("1.0.0")}}

\* Replicas of one service on etcd that register with their base URLs, and
\* a client that discovers the service.
InitRoundTrip ==
    /\ InitWith("etcd", Insts, {Given(1)}, {Given(ConfMaxStep)})
    /\ \A i \in Insts : ~singleton[i] /\ ident[i] = ident[1] /\ baseURL[i] # ""

NextRoundTrip ==
    \/ \E i \in Insts : RegisterService(i)
    \/ \E i \in Insts : EtcdLoop(i)
    \/ \E j \in Insts : Expire(j)
    \/ \E given \in RoundTripOptions : EtcdDiscover(given)

SpecRoundTrip == InitRoundTrip /\ [][NextRoundTrip]_vars

\* The discovered instances pickRandomServiceInstance is called with: at
\* most one per id, at one of three versions, with or without a direct and
\* a gateway URL.
PickVersions == {ZeroVersion, Version(1, 0, 0), Version(2, 0, 0)}

DirectURLOf(j) == "http://svc/" \o ToString(j)

PickServices(j) ==
    {[id |-> j, version |-> v, directURL |-> d, gatewayURL |-> g] :
        v \in PickVersions, d \in {"", DirectURLOf(j)},
        g \in {"", GatewayURL}}

PickDiscovered ==
    {UNION {choice[j] : j \in Insts} :
        choice \in {c \in [Insts -> {{}} \cup
                        {{s} : s \in UNION {PickServices(j) : j \in Insts}}] :
                        \A j \in Insts : \A s \in c[j] : s.id = j}}

\* The options after fillDefaultDiscoverOptions, and the cached address.
PickOptions ==
    {DiscoverOptions("svc", "dev", version, accessType) :
        version \in (DiscVersionOptions \ {<<>>})
                        \cup {<<Comparator(">=", "0.0.0")>>},
        accessType \in {AccessTypeDirect, AccessTypeGateway}}

LastKnownServices == {"", "http://cached"}

InitPick ==
    /\ InitWith("etcd", {1}, {Unset}, {Unset})
    /\ \A i \in Insts : ident[i] = ident[1] /\ baseURL[i] = "" /\ ~singleton[i]
    /\ ident[1].version = "1.0.0"

NextPick ==
    \/ \E discoveredInstances \in PickDiscovered, options \in PickOptions,
          lastKnownService \in LastKnownServices :
        PickInstance(discoveredInstances, options, lastKnownService)
    \/ PickReturn

SpecPick == InitPick /\ [][NextPick]_vars

\* The configuration files and RegisterOptions of the model: every key
\* absent or present, every option the zero value or set.
ConfFiles ==
    [Name : {NotInFile, InFile("file-svc")},
     EnvName : {NotInFile, InFile("file-env")},
     Version : {NotInFile, InFile("3.0.0")},
     TTL : {Unset, Given(40)},
     PingInterval : {Unset, Given(25)}]

RegOptions ==
    {RegisterOptions(value, environment, version, ttl, ping) :
        value \in {"", "svc"}, environment \in {"", "test"},
        version \in {"", "2.0.0"}, ttl \in {0, 10}, ping \in {0, 5}}

InitLoad ==
    /\ InitWith("etcd", {1}, {Unset}, {Unset})
    /\ \A i \in Insts : ident[i] = ident[1] /\ baseURL[i] = "" /\ ~singleton[i]

NextLoad ==
    \/ \E file \in ConfFiles, confStart \in ConfStartValues,
          confMax \in ConfMaxValues, regOptions \in RegOptions :
        LoadConfiguration(file, confStart, confMax, regOptions)
    \/ LoadReturn

SpecLoad == InitLoad /\ [][NextLoad]_vars

\* One process on etcd whose loop registers and refreshes among instances
\* of other processes, and a client that discovers the service while the
\* loop runs.
InitInterleave ==
    /\ InitWith("etcd", {1}, {Given(1)}, {Given(ConfMaxStep)})
    /\ \A i \in Insts : ~singleton[i] /\ ident[i] = ident[1]
    /\ baseURL[1] # ""

NextInterleave ==
    \/ RegisterService(1)
    \/ EtcdLoop(1)
    \/ \E j \in Insts : Expire(j)
    \/ \E j \in Insts : PeerRegister(j)
    \/ \E given \in RoundTripOptions : EtcdDiscover(given)

SpecInterleave == InitInterleave /\ [][NextInterleave]_vars

\* No instance of another process holds a key.
OthersGone(i) == \A j \in Insts \ {i} : ~kv[j].dir

\* This step of instance i's loop is a registry request that failed for
\* want of an answer, not for what the registry holds.
RequestFailed(i) ==
    \/ pc[i] = "run" /\ ~isRegistered[i] /\ probe'[i] = "failed"
    \/ pc[i] = "set_dir" /\ ~kv[i].dir /\ pc'[i] = "sleep"
    \/ pc[i] = "set_url" /\ ~ok'[i]
    \/ pc[i] = "run" /\ isRegistered[i] /\ kv[i].dir /\ ~ok'[i]

\* A step of instance i's loop whose registry requests are answered once
\* the other instances are gone.
LapseLoop(i) == EtcdLoop(i) /\ (OthersGone(i) => ~RequestFailed(i))

\* The TTL of a directory that its owner does not refresh runs out.
LeaseLapse(j) == ~isRegistered[j] /\ Expire(j)

\* A singleton on etcd that starts while instances of other processes of
\* its service are registered; these are not refreshed and do not come
\* back, and from their expiry on every registry request is answered.
InitLapse ==
    /\ backend = "etcd"
    /\ \E cs \in ConfStartValues, cm \in ConfMaxValues \ {Unset} :
        /\ startRetryDelay = [i \in Insts |-> getRetryDelays(cs, cm).startRD]
        /\ maxRetryDelay = [i \in Insts |-> getRetryDelays(cs, cm).maxRD]
    /\ pingInterval = [i \in Insts |-> DefaultPingInterval]
    /\ baseURL = [i \in Insts |-> "http://svc"]
    /\ ident = [i \in Insts |->
                    [env |-> "dev", name |-> "svc", version |-> "1.0.0"]]
    /\ singleton = [i \in Insts |-> i = 1]
    /\ isRegistered = [i \in Insts |-> FALSE]
    /\ pc = [i \in Insts |-> IF i = 1 THEN "idle" ELSE "peer"]
    /\ retryDelay = [i \in Insts |-> 0]
    /\ ok = [i \in Insts |-> FALSE]
    /\ op = [i \in Insts |-> "none"]
    /\ probe = [i \in Insts |-> "none"]
    /\ slept = [i \in Insts |-> NoSleep]
    /\ timer = [i \in Insts |-> 0]
    /\ kv \in [Insts -> {EmptyDir,
                         [EmptyDir EXCEPT !.dir = TRUE, !.ttl = DefaultTTL,
                                          !.url = "http://svc"]}]
    /\ ~kv[1].dir
    /\ cat = [i \in Insts |-> NoEntry]
    /\ shutdown = [i \in Insts |-> "no"]
    /\ tree = [instances |-> {"1.0.0"},
               gatewayUrl |-> [v \in {id.version : id \in Idents} |-> NoKey]]
    /\ call = NoCall

NextLapse ==
    \/ RegisterService(1)
    \/ LapseLoop(1)
    \/ \E j \in Insts : Expire(j)

SpecLapse ==
    /\ InitLapse
    /\ [][NextLapse]_vars
    /\ WF_vars(LapseLoop(1))
    /\ \A j \in Insts : WF_vars(LeaseLapse(j))

\* The time that passes in one step of the clock (s).
TickSeconds == 10

\* Time passes: a time.Sleep that is over returns before more time passes,
\* a registry request may take any time; a directory whose TTL has run out
\* is removed.
Tick ==
    /\ backend = "etcd"
    /\ \A i \in Insts : pc[i] = "sleep" => timer[i] > 0
    /\ timer' = [i \in Insts |->
                    IF pc[i] # "sleep" THEN timer[i]
                    ELSE IF timer[i] > TickSeconds * 1000
                        THEN timer[i] - TickSeconds * 1000
                    ELSE 0]
    /\ kv' = [j \in Insts |->
                IF ~kv[j].dir \/ kv[j].ttl = 0 THEN kv[j]
                ELSE IF kv[j].ttl > TickSeconds
                    THEN [kv[j] EXCEPT !.ttl = @ - TickSeconds]
                ELSE EmptyDir]
    /\ UNCHANGED <<confVars, isRegistered, pc, retryDelay, ok, op, probe,
                   slept, cat, shutdown, tree, call>>

\* time.Sleep returns when its time is over.
TimedWake(i) == timer[i] = 0 /\ Wake(i)

\* A step of instance i's loop in time, every registry request answered.
TimedLoop(i) ==
    \/ EtcdOp(i) /\ ~RequestFailed(i)
    \/ TimedWake(i)

\* One process on etcd with the default TTL and ping interval, and a clock.
InitTimed ==
    /\ InitWith("etcd", {1}, ConfStartValues, ConfMaxValues)
    /\ baseURL[1] # ""

NextTimed ==
    \/ RegisterService(1)
    \/ TimedLoop(1)
    \/ Tick

SpecTimed == InitTimed /\ [][NextTimed]_vars

\* consul_discovery.go: one process that registers in RegisterService and
\* then checks in, among instances of other processes.
checkInLoop(i) ==
    \/ registerProbe(i)
    \/ registerServiceRegister(i)
    \/ registerRetry(i)
    \/ checkIn(i)
    \/ checkInAgain(i)

InitCheckIn == InitWith("consul", {1}, ConfStartValues, {Given(ConfMaxStep)})

NextCheckIn ==
    \/ checkInRegisterService(1)
    \/ checkInLoop(1)
    \/ \E j \in Insts : ConsulLapse(j)
    \/ \E j \in Insts : ConsulReap(j)
    \/ \E j \in Insts : ConsulPeerRegister(j)

SpecCheckIn == InitCheckIn /\ [][NextCheckIn]_vars

\* Environments and names with and without '-' in them.
ConsulIdents ==
    {[env |-> e, name |-> n, version |-> "1.0.0"] :
        e \in {"a", "a-b"}, n \in {"c", "b-c"}}

ConsulDiscOptions ==
    {DiscoverOptions(id.name, id.env, version, accessType) :
        id \in ConsulIdents,
        version \in {<<>>, CaretConstraint("1.0.0")},
        accessType \in {"", AccessTypeDirect}}

\* Consul with instances of processes outside the model that register
\* services of these environments and names, pass and miss their checks,
\* and a process that discovers.
InitConsulDiscover ==
    /\ backend = "consul"
    /\ startRetryDelay = [i \in Insts |-> DefaultStartRetryDelay]
    /\ maxRetryDelay = [i \in Insts |-> DefaultMaxRetryDelay]
    /\ pingInterval = [i \in Insts |-> DefaultPingInterval]
    /\ baseURL = [i \in Insts |-> ""]
    /\ ident \in [Insts -> ConsulIdents]
    /\ singleton = [i \in Insts |-> FALSE]
    /\ isRegistered = [i \in Insts |-> FALSE]
    /\ pc = [i \in Insts |-> "peer"]
    /\ retryDelay = [i \in Insts |-> 0]
    /\ ok = [i \in Insts |-> FALSE]
    /\ op = [i \in Insts |-> "none"]
    /\ probe = [i \in Insts |-> "none"]
    /\ slept = [i \in Insts |-> NoSleep]
    /\ timer = [i \in Insts |-> 0]
    /\ kv = [i \in Insts |-> EmptyDir]
    /\ cat = [i \in Insts |-> NoEntry]
    /\ shutdown = [i \in Insts |-> "no"]
    /\ tree = [instances |-> {},
               gatewayUrl |-> [v \in GatewayVersions |-> NoKey]]
    /\ call = NoCall

NextConsulDiscover ==
    \/ \E j \in Insts : call = NoCall /\ ConsulPeerRegister(j)
    \/ \E j \in Insts : call = NoCall /\ ConsulLapse(j)
    \/ \E j \in Insts : call = NoCall /\ ConsulReap(j)
    \/ \E given \in ConsulDiscOptions : call = NoCall /\ ConsulDiscover(given)
    \/ DiscoverReturn

SpecConsulDiscover == InitConsulDiscover /\ [][NextConsulDiscover]_vars

\* ------------------------------------------------------------------ claims

Min(a, b) == IF a < b THEN a ELSE b

\* Instance i's loop finishes an iteration in this step.
EndsIteration(i) == pc[i] # "sleep" /\ pc'[i] = "sleep"

\* The iteration before the one in progress failed.
PreviousFailed(i) == op[i] # "none" /\ ~ok[i]

\* C1: the instance starts Unregistered, and after every iteration of run()
\* isRegistered is true exactly when the iteration's registry operation
\* succeeded; the operation was a register when isRegistered was false
\* before it and a refresh when it was true.  A register that succeeded has
\* written the instance's url key, a refresh succeeds only on a directory
\* that exists.
C1_RegisteredIffSucceeded ==
    [][\A i \in Insts :
        /\ RegisterService(i) => ~isRegistered'[i]
        /\ EndsIteration(i) =>
            /\ isRegistered'[i] = ok'[i]
            /\ op'[i] = (IF isRegistered[i] THEN "refresh" ELSE "register")
            /\ (ok'[i] /\ op'[i] = "register") =>
                    (kv'[i].dir /\ kv'[i].url = baseURL[i])
            /\ (ok'[i] /\ op'[i] = "refresh") => kv[i].dir]_vars

\* A refresh has failed and left the instance Unregistered.
C1_Witness ==
    \E i \in Insts :
        pc[i] = "sleep" /\ op[i] = "refresh" /\ ~ok[i] /\ ~isRegistered[i]

\* C2: after a failed refresh the loop is Unregistered, sleeps the backoff
\* delay, and its next registry operation is the probe of a full register,
\* never another refresh; a refresh is attempted only while isRegistered is
\* true, and the calls of register only while it is false.
C2_RegisterAfterFailedRefresh ==
    [][\A i \in Insts :
        /\ (op[i] = "refresh" /\ ~ok[i]) =>
            /\ ~isRegistered[i]
            /\ slept[i].unit = "ms"
            /\ ~EtcdTtlUpdate(i)
            /\ (pc[i] = "run" /\ EtcdOp(i)) => EtcdProbe(i)
        /\ EtcdTtlUpdate(i) => isRegistered[i]
        /\ (EtcdProbe(i) \/ EtcdSetDir(i) \/ EtcdSetUrl(i)) => ~isRegistered[i]]_vars

\* After a failed refresh the loop has probed, written the directory again
\* and is about to write the url key.
C2_Witness ==
    \E i \in Insts : op[i] = "refresh" /\ ~ok[i] /\ pc[i] = "set_url"

\* C3: the sleep after a failed iteration is startRetryDelay when the
\* iteration before it did not fail, and min(2 * the previous sleep,
\* maxRetryDelay) when it did, whatever the two iterations were (register
\* failure, singleton conflict, refresh failure).
C3_BackoffDoubles ==
    [][\A i \in Insts :
        (EndsIteration(i) /\ ~ok'[i]) =>
            slept'[i] =
                [unit |-> "ms",
                 n |-> IF PreviousFailed(i)
                        THEN Min(2 * slept[i].n, maxRetryDelay[i])
                        ELSE startRetryDelay[i]]]_vars

\* A third consecutive failure has slept 4 * startRetryDelay, below the cap.
C3_Witness ==
    \E i \in Insts :
        /\ pc[i] = "sleep" /\ ~ok[i]
        /\ slept[i] = [unit |-> "ms", n |-> 4 * startRetryDelay[i]]
        /\ 4 * startRetryDelay[i] < maxRetryDelay[i]

\* C4: after a successful register or refresh the loop sleeps PingInterval
\* seconds, and a failure that follows a success sleeps startRetryDelay,
\* whatever the delay was before the success.
C4_SuccessResetsDelay ==
    [][\A i \in Insts :
        /\ (EndsIteration(i) /\ ok'[i]) =>
                slept'[i] = [unit |-> "s", n |-> pingInterval[i]]
        /\ (EndsIteration(i) /\ ~ok'[i] /\ op[i] # "none" /\ ok[i]) =>
                slept'[i] = [unit |-> "ms", n |-> startRetryDelay[i]]]_vars

\* A refresh, which only follows a success, has failed and slept
\* startRetryDelay.
C4_Witness ==
    \E i \in Insts :
        /\ pc[i] = "sleep" /\ op[i] = "refresh" /\ ~ok[i]
        /\ slept[i] = [unit |-> "ms", n |-> startRetryDelay[i]]

\* C5: every backoff sleep is at most maxRetryDelay, for all configured
\* values of the two delays.
C5_SleepAtMostMax ==
    \A i \in Insts : slept[i].unit = "ms" => slept[i].n <= maxRetryDelay[i]

\* An instance has an active instance key in etcd.
EtcdHasActiveKey(i) ==
    kv[i].dir /\ kv[i].url \notin {NoKey, ""} /\ kv[i].status # "disabled"

\* C6: of the singleton instances of one name, version and environment, at
\* most one has an active instance key in the registry at any time.
C6_AtMostOneSingleton ==
    \A i, j \in Insts :
        (/\ singleton[i] /\ singleton[j] /\ ident[i] = ident[j]
         /\ EtcdHasActiveKey(i) /\ EtcdHasActiveKey(j)) => i = j

\* C7: when a singleton's probe finds an active instance (non-empty url,
\* status not disabled) under its environment, name and version, the
\* register attempt writes nothing, the loop stays Unregistered, and the
\* attempt ends as a failure that sleeps the backoff delay.
C7_SingletonConflictWritesNothing ==
    [][\A i \in Insts :
        (/\ EtcdProbe(i)
         /\ singleton[i]
         /\ probe'[i] # "failed"
         /\ \E j \in Insts :
                /\ ident[j] = ident[i]
                /\ kv[j].dir /\ kv[j].url \notin {NoKey, ""}
                /\ kv[j].status # "disabled")
        => /\ kv' = kv
           /\ pc'[i] = "sleep"
           /\ ~isRegistered'[i]
           /\ ~ok'[i]
           /\ slept'[i] = [unit |-> "ms", n |-> retryDelay[i]]]_vars

\* A singleton was refused because of another instance's key.
C7_Witness ==
    \E i \in Insts :
        /\ singleton[i] /\ probe[i] = "found" /\ pc[i] = "sleep" /\ ~ok[i]
        /\ ~kv[i].dir
        /\ \E j \in Insts \ {i} : EtcdHasActiveKey(j) /\ ident[j] = ident[i]

\* Another instance j of i's name, version and environment is registered in
\* Consul and healthy.
ConsulOtherHealthy(i, j) ==
    /\ j # i
    /\ cat[j].status = "passing"
    /\ cat[j].name = consulName(i)
    /\ consulVersionTag(i) \in cat[j].tags

\* C8: in the Consul source, a register attempt of a singleton made while
\* another healthy instance of the same name, version and environment is
\* registered does not register the instance.
C8_ConsulSingletonRefused ==
    [][\A i \in Insts :
        (/\ ConsulProbe(i)
         /\ singleton[i]
         /\ probe'[i] # "failed"
         /\ \E j \in Insts : ConsulOtherHealthy(i, j))
        => (pc'[i] = "sleep" /\ ~ok'[i])]_vars

C10_NoOperationAfterShutdown ==
    [][\A i \in Insts : shutdown[i] = "due" => ~EtcdOp(i)]_vars

\* C13: a constraint ^X.Y.Z accepts exactly the versions v with
\* X.Y.Z <= v < (X+1).0.0.
C13_CaretAcceptsUpToNextMajor ==
    \A x, y, z \in 0..MaxPart : \A v \in Versions :
        (/\ call.kind = "match"
         /\ call.version = CaretConstraint(VersionString(Version(x, y, z)))
         /\ call.tag = VersionString(v))
        => (call.accepted <=>
                /\ VersionGTE(v, Version(x, y, z))
                /\ VersionLT(v, Version(x + 1, 0, 0)))

\* C14: a constraint ~X.Y.Z accepts exactly the versions v with
\* X.Y.Z <= v < X.(Y+1).0.
C14_TildeAcceptsUpToNextMinor ==
    \A x, y, z \in 0..MaxPart : \A v \in Versions :
        (/\ call.kind = "match"
         /\ call.version = TildeConstraint(VersionString(Version(x, y, z)))
         /\ call.tag = VersionString(v))
        => (call.accepted <=>
                /\ VersionGTE(v, Version(x, y, z))
                /\ VersionLT(v, Version(x, y + 1, 0)))

\* The version of instance j satisfies the version constraint of the
\* options.
SatisfiesConstraint(given, j) ==
    LET wantVersion == parseVersion(fillDefaultDiscoverOptions(given).Version)
        version == ParseTolerant(ident[j].version)
    IN  ~wantVersion.err /\ ~version.err /\ InRange(wantVersion.range, version.v)

\* The instances the registry query of DiscoverService(given) returns whose
\* version parses.
QueriedInstances(given) ==
    {j \in Insts :
        /\ kv[j].dir
        /\ ident[j].env = fillDefaultDiscoverOptions(given).Environment
        /\ ident[j].name = given.Value
        /\ ~ParseTolerant(ident[j].version).err}

\* This step is a call of etcd DiscoverService; call'.options are its
\* options.
DiscoverStep ==
    /\ call'.kind = "discover"
    /\ UNCHANGED <<kv, tree>>
    /\ EtcdDiscover(call'.options)

\* The ways DiscoverService ends before it has the discovered instances:
\* the read failed, the directory is missing, the process panicked.
ReadErrors == {"registry", "100: Key not found", "panic"}

\* C11: whenever DiscoverService returns an address, it is the address of
\* an instance whose version satisfies the constraint, and no instance the
\* query returned has a later version that satisfies it.
C11_PickedIsLatestMatching ==
    [][(DiscoverStep /\ call'.result.err = "")
        => /\ call'.result.picked \in QueriedInstances(call'.options)
           /\ SatisfiesConstraint(call'.options, call'.result.picked)
           /\ \A j \in QueriedInstances(call'.options) :
                SatisfiesConstraint(call'.options, j)
                => VersionGTE(ParseTolerant(ident[call'.result.picked].version).v,
                              ParseTolerant(ident[j].version).v)]_vars

\* C12: when no discovered instance's version satisfies the constraint,
\* DiscoverService returns no address and the "no matching version" error.
C12_NoMatchIsAnError ==
    [][(/\ DiscoverStep
        /\ call'.result.err \notin ReadErrors \cup {"wantVersion parse error"}
        /\ \A j \in QueriedInstances(call'.options) :
                ~SatisfiesConstraint(call'.options, j))
        => /\ call'.result.err = "No service found (no matching version)"
           /\ call'.result.url = ""]_vars

\* The instances the query returns all have the same version and a url.
AllAtOneVersion(given) ==
    /\ \A j, k \in QueriedInstances(given) :
            VersionEQ(ParseTolerant(ident[j].version).v,
                      ParseTolerant(ident[k].version).v)
    /\ \A j \in QueriedInstances(given) : kv[j].url \notin {NoKey, ""}

\* C15: every instance at the latest matching version is eligible for the
\* random pick: with the constraint "*" and instances that all have the
\* same version, DiscoverService returns the address of one of them.
C15_EveryLatestInstanceEligible ==
    [][(/\ DiscoverStep
        /\ call'.options.Version = <<Comparator("", "*")>>
        /\ call'.result.err \notin ReadErrors
        /\ QueriedInstances(call'.options) # {}
        /\ AllAtOneVersion(call'.options))
        => /\ call'.result.err = ""
           /\ call'.result.picked \in QueriedInstances(call'.options)]_vars

\* C16: for the picked instance DiscoverService returns the gateway URL
\* when the access type is gateway and the instance has one, otherwise the
\* direct URL; an instance with neither makes the call fail with the "no
\* service with URL" error.
C16_GatewayThenDirect ==
    [][(DiscoverStep /\ call'.result.picked # 0)
        => LET j == call'.result.picked
               accessType ==
                    fillDefaultDiscoverOptions(call'.options).AccessType
               gatewayURL == ValueOrEmpty(kv[j].gatewayUrl)
               directURL == ValueOrEmpty(kv[j].url)
           IN  IF accessType = AccessTypeGateway /\ gatewayURL # ""
                THEN call'.result.err = "" /\ call'.result.url = gatewayURL
                ELSE /\ call'.result.url = directURL
                     /\ directURL # "" => call'.result.err = ""
                     /\ (directURL = "" /\ gatewayURL = "")
                        => call'.result.err =
                            "No service found (no service with URL)"]_vars

\* A call with the access type direct has picked an instance that has a
\* gateway URL too, and returned its direct URL.
C16_Witness ==
    /\ call.kind = "discover"
    /\ call.options.AccessType = AccessTypeDirect
    /\ call.result.err = ""
    /\ call.result.picked # 0
    /\ kv[call.result.picked].gatewayUrl = GatewayURL
    /\ call.result.url = kv[call.result.picked].url

\* C17: when the gatewayUrl key of a version holds a URL and the access
\* type is gateway, a DiscoverService call that picks an instance of that
\* version returns that URL.
C17_VersionGatewayUrlReturned ==
    [][(/\ DiscoverStep
        /\ call'.result.picked # 0
        /\ fillDefaultDiscoverOptions(call'.options).AccessType
                = AccessTypeGateway
        /\ ident[call'.result.picked].version \in DOMAIN tree.gatewayUrl
        /\ tree.gatewayUrl[ident[call'.result.picked].version] # NoKey)
        => /\ call'.result.err = ""
           /\ call'.result.url =
                tree.gatewayUrl[ident[call'.result.picked].version]]_vars

\* C19: DiscoverService for an environment and a service name under which
\* no instance is registered, when the registry answers, fails with the
\* "no matching version" error and returns no address.
C19_NothingRegisteredIsNoMatch ==
    [][(/\ DiscoverStep
        /\ call'.result.err # "registry"
        /\ \A j \in Insts :
                ~(/\ kv[j].dir
                  /\ ident[j].env =
                        fillDefaultDiscoverOptions(call'.options).Environment
                  /\ ident[j].name = call'.options.Value))
        => /\ call'.result.err = "No service found (no matching version)"
           /\ call'.result.url = ""]_vars

\* The instance directories without those of the instances whose version
\* does not parse.
WithoutUnparseable ==
    [j \in Insts |->
        IF ParseTolerant(ident[j].version).err THEN EmptyDir ELSE kv[j]]

RegisteredAlive(i) ==
    /\ isRegistered[i]
    /\ kv[i].dir
    /\ kv[i].url = baseURL[i]

\* C18: what a successful registration wrote is found by discovery: while
\* an instance registered with base URL u at version v is alive,
\* DiscoverService for its environment and name, with a constraint whose
\* latest match is v and the access type direct, returns the direct URL of
\* an instance registered at v, and u when it is the only one.
C18_RegisteredIsDiscovered ==
    [][(/\ DiscoverStep
        /\ call'.result.err # "registry"
        /\ \E i \in Insts : RegisteredAlive(i))
        => /\ call'.result.err = ""
           /\ \E i \in Insts :
                /\ kv[i].dir
                /\ ident[i].version = "1.0.0"
                /\ call'.result.url = kv[i].url
           /\ \A i \in Insts :
                (/\ RegisteredAlive(i)
                 /\ \A j \in Insts \ {i} : ~kv[j].dir)
                => call'.result.url = baseURL[i]]_vars

EmptyOptions(value) == DiscoverOptions(value, "", <<>>, "")
DefaultOptions(value) ==
    DiscoverOptions(value, "dev", <<Comparator(">=", "0.0.0")>>,
                    AccessTypeGateway)

PickMatching ==
    {s \in call.instances :
        /\ ~parseVersion(call.options.Version).err
        /\ InRange(parseVersion(call.options.Version).range, s.version)}

InstanceURLs ==
    {s.directURL : s \in call.instances}
        \cup {s.gatewayURL : s \in call.instances}

\* C23: when no discovered instance matches the version constraint, or the
\* picked instance has no URL, pickRandomServiceInstance returns
\* lastKnownService (the empty address when there is none) together with an
\* error; and when it returns no error the address is not empty and is a
\* URL of a discovered instance, not the cached one.
C23_LastKnownFallback ==
    call.kind = "pick" =>
        /\ (~parseVersion(call.options.Version).err /\ PickMatching = {})
            => /\ call.result.service = call.lastKnown
               /\ call.result.err # ""
        /\ (\E s \in call.instances :
                /\ s.id = call.result.picked
                /\ s.directURL = ""
                /\ (s.gatewayURL = ""
                        \/ call.options.AccessType # AccessTypeGateway))
            => /\ call.result.service = call.lastKnown
               /\ call.result.err # ""
        /\ call.result.err = ""
            => /\ call.result.service # ""
               /\ call.result.service \in InstanceURLs
               /\ call.result.service # call.lastKnown

\* The part of C23 that does not depend on which instances are selected:
\* every error comes with lastKnownService, every success with a URL of a
\* discovered instance.
PickErrorsFallBack ==
    call.kind = "pick" =>
        /\ call.result.err # "" => call.result.service = call.lastKnown
        /\ call.result.err = ""
            => /\ call.result.service # ""
               /\ call.result.service \in InstanceURLs
               /\ call.result.service # call.lastKnown

\* The value a setting has by precedence: the option when it is set, else
\* the file's value when the file holds the key, else the default.
Effective(option, zero, inFile, default) ==
    IF option # zero THEN option
    ELSE IF inFile.ok THEN inFile.v
    ELSE default

C25_RegisterReturnsAtOnce ==
    /\ [](\A i \in Insts : pc[i] = "idle" => ENABLED RegisterService(i))
    /\ [][\A i \in Insts :
            (pc[i] = "idle" /\ pc'[i] # "idle")
                => /\ pc'[i] = "run"
                   /\ UNCHANGED <<kv, cat, tree, ok, op, probe, slept>>
                   /\ RegisterServiceResult(i).serviceID = Uuids[i]
                   /\ RegisterServiceResult(i).err = ""]_vars

\* RegisterService has returned to a singleton whose registration was then
\* refused because another instance is active.
C25_Witness ==
    \E i \in Insts :
        /\ singleton[i] /\ pc[i] \notin {"idle", "peer"}
        /\ op[i] = "register" /\ ~ok[i] /\ probe[i] = "found"
        /\ ~isRegistered[i]
        /\ \E j \in Insts \ {i} : kv[j].dir

\* C26: whatever the registry holds, also a version directory without an
\* instances child, etcd DiscoverService returns an address or an error and
\* does not crash.
C26_DiscoveryNeverCrashes ==
    call.kind = "discover" =>
        \/ call.result.err = "" /\ call.result.url # ""
        \/ call.result.err \notin {"", "panic"} /\ call.result.url = ""

\* The positions of run() inside register() or ttlUpdate().
InOperation == {"run", "set_dir", "set_url", "agent_register"}

\* The results of instance i's operations did not change in this step.
OwnResultsUnchanged(i) ==
    /\ op'[i] = op[i]
    /\ ok'[i] = ok[i]
    /\ isRegistered'[i] = isRegistered[i]
    /\ probe'[i] = probe[i]
    /\ slept'[i] = slept[i]

\* C27: the registry operations of one registration are strictly
\* sequential: an operation that has started goes on or ends in the sleep
\* of its iteration, the next one starts only from RegisterService or from
\* a completed sleep, and while the loop sleeps none of its operations
\* runs or finishes.
C27_OperationsSequential ==
    [][\A i \in Insts :
        /\ (pc[i] \in InOperation /\ pc'[i] # pc[i])
            => pc'[i] \in (InOperation \ {"run"}) \cup {"sleep"}
        /\ (pc'[i] = "run" /\ pc[i] # "run") => pc[i] \in {"idle", "sleep"}
        /\ (pc[i] = "run" /\ pc'[i] = "run") => OwnResultsUnchanged(i)
        /\ pc[i] = "sleep"
            => /\ pc'[i] \in {"sleep", "run"}
               /\ OwnResultsUnchanged(i)]_vars

\* A registration whose refresh has run after its register and is followed
\* by its sleep.
C27_Witness ==
    \E i \in Insts :
        /\ pc[i] = "sleep" /\ op[i] = "refresh" /\ ok[i] /\ isRegistered[i]
        /\ slept[i] = [unit |-> "s", n |-> pingInterval[i]]

\* C28: DiscoverService only reads: a call leaves the registration of every
\* instance (isRegistered, its id and key, the position of its loop) and
\* the registry contents, the gatewayUrl keys among them, as they were,
\* whatever the loops are doing.
C28_DiscoverIsReadOnly ==
    [][(call' # call /\ call'.kind = "discover")
        => UNCHANGED <<kv, tree, cat, isRegistered, ident, pc, retryDelay,
                       ok, op, probe, slept>>]_vars

\* A call has returned an address while the loop of a registered instance
\* is between two refreshes and an instance of another process is registered.
C28_Witness ==
    /\ call.kind = "discover" /\ call.result.err = ""
    /\ \E i \in Insts :
        /\ isRegistered[i] /\ pc[i] = "sleep" /\ kv[i].dir
        /\ kv[i].gatewayUrl = NoKey
    /\ \E j \in Insts : pc[j] = "peer" /\ kv[j].dir

\* C29: DiscoverService does not retry: every call, successful or not,
\* issues exactly one recursive read of the registry, and a call whose read
\* failed returns that error and no address.
C29_OneReadNoRetry ==
    call.kind = "discover" =>
        /\ call.reads = 1
        /\ call.result.err \in {"registry", "100: Key not found"}
            => call.result.url = "" /\ call.result.picked = 0

\* A call whose read failed although an instance with a URL is registered
\* that a second read would have found.
C29_Witness ==
    /\ call.kind = "discover"
    /\ call.result.err = "registry"
    /\ call.reads = 1
    /\ call.options.Version = <<>>
    /\ \E j \in QueriedInstances(call.options) :
        kv[j].url \notin {NoKey, ""} /\ ~ParseTolerant(ident[j].version).err
    /\ \A v \in EtcdVersionNodes(fillDefaultDiscoverOptions(call.options)) :
        v \in tree.instances

\* Singleton i's latest register was refused by its probe while an instance
\* of another process was active.
RefusedByOther(i) ==
    /\ singleton[i] /\ ~isRegistered[i]
    /\ pc[i] = "sleep" /\ op[i] = "register" /\ ~ok[i] /\ probe[i] = "found"
    /\ \E j \in Insts \ {i} : EtcdActiveInstance(i, j)

\* C30: a singleton that was refused because another instance was active
\* is registered at some time after that instance's TTL has run out, when
\* every registry request is answered from then on.
C30_RefusedSingletonRegistersAfterLapse ==
    RefusedByOther(1) ~> isRegistered[1]

\* C31: with the ping interval below the TTL and every registry request
\* answered, the key of an instance that has been registered is in the
\* registry in every later state.
C31_KeyStaysWhileRefreshed ==
    \A i \in Insts :
        (pingInterval[i] < DefaultTTL
            /\ (isRegistered[i] \/ op[i] = "refresh"))
        => kv[i].dir

\* Instance i's loop takes a step: RegisterService, a call of register()
\* or ttlUpdate(), or the return of time.Sleep.
LoopStep(i) == pc'[i] # pc[i]

\* C32: the instance id and the registry key are made once, in
\* RegisterService, and every register and refresh attempt of that loop,
\* re-registrations included, works on that key: no step of the loop
\* changes what the key is made of, and none touches a key under another
\* id.
C32_KeyFixedPerLoop ==
    [][\A i \in Insts :
        LoopStep(i) =>
            /\ ident'[i] = ident[i]
            /\ \A j \in Insts \ {i} : kv'[j] = kv[j]]_vars

\* A loop has registered again under its key after a failed attempt, next
\* to the key of another instance of the same service and version.
C32_Witness ==
    \E i \in Insts :
        /\ isRegistered[i] /\ op[i] = "register" /\ ok[i]
        /\ retryDelay[i] > startRetryDelay[i]
        /\ kv[i].dir /\ kv[i].url = baseURL[i]
        /\ \E j \in Insts \ {i} : kv[j].dir /\ ident[j] = ident[i]

\* C33: in consul_discovery.go a failed TTL update moves the instance to
\* Unregistered, and after the backoff sleep the instance registers again
\* before TTL updates resume.
C33_FailedCheckInReregisters ==
    [][\A i \in Insts :
        /\ (pc[i] = "checkIn" /\ pc'[i] = "checkIn_sleep" /\ ~ok'[i])
                => ~isRegistered'[i]
        /\ (pc[i] = "checkIn_sleep" /\ ~ok[i] /\ pc'[i] # pc[i])
                => pc'[i] = "register"]_vars

\* The instances read by the call that are at the version of the instance
\* it picked.
AtPickedVersion ==
    {j \in Insts :
        /\ kv[j].dir
        /\ ~ParseTolerant(ident[j].version).err
        /\ VersionEQ(ParseTolerant(ident[j].version).v,
                     ParseTolerant(ident[call.result.picked].version).v)}

\* C34: when an instance at the latest matching version has a direct URL
\* that is not empty, DiscoverService returns an address: it returns
\* 'no service with URL' only when no instance at the selected version
\* has a URL.
C34_AddressWhenOneHasURL ==
    (call.kind = "discover"
        /\ call.result.err = "No service found (no service with URL)")
    => \A j \in AtPickedVersion : kv[j].url \in {NoKey, ""}

\* C35: a singleton writes its registration only after a probe that read
\* the registry and found no active instance; when the probe's read has
\* failed, nothing is written in that iteration.
C35_SingletonWritesAfterClearProbe ==
    [][\A i \in Insts :
        (singleton[i] /\ pc[i] \in {"set_dir", "set_url"}
            /\ LoopStep(i) /\ kv'[i] # kv[i])
        => probe[i] = "clear"]_vars

\* C36: the probe of a singleton never counts the instance's own key:
\* after a failed refresh of a singleton whose key is still in the
\* registry and which is the only instance, the next register attempt is
\* not refused by the probe.
C36_OwnKeyNotCounted ==
    [][\A i \in Insts :
        (singleton[i] /\ pc[i] = "run" /\ ~isRegistered[i] /\ LoopStep(i)
            /\ op[i] = "refresh" /\ ~ok[i]
            /\ EtcdActiveInstance(i, i)
            /\ \A j \in Insts \ {i} : ~kv[j].dir)
        => probe'[i] # "found"]_vars

\* C37: a failed etcd register attempt leaves the registry unchanged: when
\* register() returns false, the registry holds no key of the instance,
\* directory or url, that the attempt has added.  register() gets to its
\* second Set only after it has created the directory itself.
C37_FailedRegisterWritesNothing ==
    [][\A i \in Insts :
        (pc[i] = "set_url" /\ pc'[i] = "sleep" /\ ~ok'[i])
        => ~kv'[i].dir]_vars

\* C38: whenever the etcd loop has just moved to Registered, the url key
\* of the instance holds a URL that is not empty, so DiscoverService can
\* resolve the instance and the probe of another instance counts it as
\* active (both need a url that is not empty); also when no base URL is
\* configured.
C38_RegisteredHasURL ==
    [][\A i \in Insts :
        (~isRegistered[i] /\ isRegistered'[i])
        => kv'[i].url \notin {NoKey, ""}]_vars

\* C39: Consul DiscoverService for environment e and name n returns only
\* the address of an instance that was registered with exactly e and n,
\* whatever the strings are, '-' in them included.
C39_DiscoverReturnsQueriedService ==
    (call.kind = "discover" /\ call.result.picked # 0)
    => /\ ident[call.result.picked].env = call.options.Environment
       /\ ident[call.result.picked].name = call.options.Value

====
